---- MODULE Spec2Model ----
(***************************************************************************)
(* Model of photomanager/google_photos.py: the GooglePhotos client         *)
(* (token loading, authenticated requests with one refresh-and-retry,      *)
(* paginated loading of the media items, upload of the missing files) and   *)
(* main().  The program is sequential; pc is its position.  The Google     *)
(* endpoints, the OAuth flow and the file system are the environment:      *)
(* their answers are drawn with \E from the small sets defined below.       *)
(***************************************************************************)
EXTENDS Naturals, Sequences, FiniteSets

VARIABLES
    pc,           \* position of the program (see Positions)
    err,          \* the exception that ended the run, "none" while running
    tokens,       \* self.tokens, NoTokens before _load_tokens returns
    token_file,   \* contents of TOKENS_FILE: Absent, Partial, or a pair
    mr,           \* position inside the in-progress _make_request call
    events,       \* what the in-progress / last _make_request call did, in order
    response,     \* the response _make_request returned to its caller
    media_items,  \* media_items of _load_media_items, then self.media_items
    page_token,   \* page_token of _load_media_items (0 is None)
    served,       \* items of the listing pages answered with status 200, in order
    local,        \* the files under the path given to upload_missing
    yielded,      \* the files path.glob has produced so far
    path,         \* the loop variable of upload_missing
    upload_token, \* upload_token of upload_missing (0 before the first upload)
    sent,         \* per file: raw-upload requests sent for it in this run
    created,      \* batchCreate requests sent: records [path, fileName, uploadToken]
    added,        \* files logged as "uploaded, added to library"
    issued,       \* upload tokens the upload endpoint has handed out: token -> file
    n401,         \* number of 401 answers given so far in this run
    input_path    \* what main() found for its input_path argument

vars == <<pc, err, tokens, token_file, mr, events, response, media_items,
          page_token, served, local, yielded, path, upload_token, sent,
          created, added, issued, n401, input_path>>

----------------------------------------------------------------------------
(* Bounds of the model. *)

\* the listing endpoint serves at most this many pages
MaxPages == 2
\* a page holds at most this many items (pageSize is 100 in the code)
MaxPageItems == 1
\* the endpoints answer 401 at most this many times in a run
MaxUnauthorized == 2

----------------------------------------------------------------------------
(* Values. *)

FileName(stem, suffix) == [stem |-> stem, suffix |-> suffix]
File(parent, stem, suffix) == [parent |-> parent, name |-> FileName(stem, suffix)]

\* file names the remote library may hold
RemoteNames == {FileName("A", "JPG"), FileName("B", "JPG")}

\* the directory trees the path argument may name
Directories ==
    { {File("d", "A", "JPG"), File("e", "B", "JPG"), File("d", "C", "JPG"),
       File("d", "D", "jpg")},
      {File("d", "A", "JPG")} }

AllFiles == UNION Directories

NoFile == File("", "", "")

AccessTokens == {"t0", "t1"}
RefreshTokens == {"r0", "r1"}
TokenPairs == [token : AccessTokens, refresh_token : RefreshTokens]
\* the pair TOKENS_FILE may hold at start, and the pair the OAuth flow grants
SavedPair == [token |-> "t0", refresh_token |-> "r0"]
GrantedPairs == {[token |-> "t1", refresh_token |-> "r1"]}
NoTokens == [token |-> "", refresh_token |-> ""]

\* TOKENS_FILE: it does not exist, it holds a truncated or partly written
\* document (what open(..., 'w') leaves until json.dump has completed), or it
\* holds the JSON document of a pair
Absent == [state |-> "absent", token |-> "", refresh_token |-> ""]
Partial == [state |-> "partial", token |-> "", refresh_token |-> ""]
Stored(p) == [state |-> "valid", token |-> p.token, refresh_token |-> p.refresh_token]
\* TOKENS_FILE.is_file() and json.load(f) succeeds
Readable(f) == f.state = "valid"
PairOf(f) == [token |-> f.token, refresh_token |-> f.refresh_token]

Positions == {"load_tokens", "save_tokens", "list", "main", "glob", "upload",
              "create", "done", "raised"}

\* status 0 stands for a request that got no response (transport failure)
Statuses == {0, 200, 401, 500}

RECURSIVE SeqsUpTo(_, _)
SeqsUpTo(S, n) ==
    IF n = 0 THEN {<<>>}
    ELSE LET shorter == SeqsUpTo(S, n - 1)
         IN shorter \cup {Append(s, x) : s \in {t \in shorter : Len(t) = n - 1}, x \in S}

RECURSIVE Flatten(_)
Flatten(ss) == IF ss = <<>> THEN <<>> ELSE Head(ss) \o Flatten(Tail(ss))

RECURSIVE SumLen(_)
SumLen(ss) == IF ss = <<>> THEN 0 ELSE Len(Head(ss)) + SumLen(Tail(ss))

Range(s) == {s[i] : i \in 1..Len(s)}

----------------------------------------------------------------------------
(* The environment: what the endpoints answer. *)

NoBody(status) ==
    [status |-> status, hasItems |-> FALSE, items |-> <<>>, next |-> 0, text |-> 0]

\* A listing page: {"mediaItems": [...], "nextPageToken": ...}.  The provider
\* leaves the mediaItems field out of a page that has no items, or sends it
\* as an empty list.
ListBodies ==
    {[hasItems |-> TRUE, items |-> s] : s \in SeqsUpTo(RemoteNames, MaxPageItems)}
        \cup {[hasItems |-> FALSE, items |-> <<>>]}

\* the cursor of the page after the ones served so far, or 0 for none
NextCursors == IF Len(served) + 1 < MaxPages THEN {0, Len(served) + 1} ELSE {0}

\* the body of a successful upload is a new upload token
FreshUploadToken == Cardinality(issued) + 1

Successes(kind) ==
    CASE kind = "list" ->
           {[status |-> 200, hasItems |-> b.hasItems, items |-> b.items,
             next |-> c, text |-> 0] : b \in ListBodies, c \in NextCursors}
      [] kind = "upload" ->
           {[status |-> 200, hasItems |-> FALSE, items |-> <<>>, next |-> 0,
             text |-> FreshUploadToken]}
      [] OTHER -> {NoBody(200)}

\* A failed request carries an error document (no mediaItems, no token);
\* status 0 is a request that got no response at all.
Failures ==
    {NoBody(s) : s \in {0, 500} \cup (IF n401 < MaxUnauthorized THEN {401} ELSE {})}

Answers(kind) == Successes(kind) \cup Failures

\* The token endpoint: a new access token, a 200 body without the field,
\* an error status with an error document, or no response.
TokenAnswers ==
    {[status |-> 200, access_token |-> t] : t \in AccessTokens}
        \cup {[status |-> 200, access_token |-> ""],
              [status |-> 400, access_token |-> ""],
              [status |-> 0, access_token |-> ""]}

----------------------------------------------------------------------------
(* Helpers taken from the code. *)

\* headers={'Authorization': f"Bearer {self.tokens['token']}"}
Bearer == tokens.token

\* the test of the first status widened to every error status
Unauthorized_AnyError(status) == status >= 400

\* response.status_code == 401
Unauthorized(status) == status = 401

\* requests' Response.raise_for_status: raises HTTPError on 4xx and 5xx
RaisesForStatus(status) == status >= 400 /\ status < 600

\* file_names = {media_item['filename'] for media_item in self.media_items}
FileNames == Range(media_items)

\* path.glob('**/*.JPG')
Candidates(dir) == {f \in dir : f.name.suffix = "JPG"}

\* an uncaught exception ends the run
Raise(e) == pc' = "raised" /\ err' = e

\* params={'pageSize': 100, 'pageToken': page_token} of the listing request
Cursor == IF pc = "list" THEN page_token ELSE 0

RequestEvent(r) ==
    [e |-> "request", token |-> Bearer, status |-> r.status, cursor |-> Cursor]

----------------------------------------------------------------------------
(* Frames. *)

tokvars == <<tokens, token_file>>
listvars == <<media_items, page_token>>
syncvars == <<local, yielded, path, upload_token, added, input_path>>
wirevars == <<served, sent, created, issued, n401>>

----------------------------------------------------------------------------
Init ==
    /\ pc = "load_tokens"
    /\ err = "none"
    /\ tokens = NoTokens
    /\ token_file \in {Absent, Partial, Stored(SavedPair)}
    /\ mr = "idle"
    /\ events = <<>>
    /\ response = NoBody(0)
    /\ media_items = <<>>
    /\ page_token = 0
    /\ served = <<>>
    /\ local = {}
    /\ yielded = {}
    /\ path = NoFile
    /\ upload_token = 0
    /\ sent = [f \in AllFiles |-> 0]
    /\ created = {}
    /\ added = {}
    /\ issued = {}
    /\ n401 = 0
    /\ input_path = "unset"

----------------------------------------------------------------------------
(* __init__: _load_tokens *)

\* LoadTokens without the read of TOKENS_FILE: the OAuth flow runs every time
LoadTokens_AlwaysFlow ==
    /\ pc = "load_tokens"
    /\ \/ \E p \in GrantedPairs :
             /\ tokens' = p
             /\ token_file' = Partial
             /\ pc' = "save_tokens"
             /\ UNCHANGED err
       \/ /\ Raise("OAuthError")
          /\ UNCHANGED tokvars
    /\ UNCHANGED <<mr, events, response, listvars, syncvars, wirevars>>

\* _load_tokens up to the open of TOKENS_FILE for writing
LoadTokens ==
    /\ pc = "load_tokens"
    /\ IF Readable(token_file)
       THEN /\ tokens' = PairOf(token_file)
            /\ pc' = "list"
            /\ UNCHANGED <<token_file, err>>
       ELSE \/ \E p \in GrantedPairs :
                 /\ tokens' = p
                 /\ token_file' = Partial
                 /\ pc' = "save_tokens"
                 /\ UNCHANGED err
            \/ /\ Raise("OAuthError")
               /\ UNCHANGED tokvars
    /\ UNCHANGED <<mr, events, response, listvars, syncvars, wirevars>>

\* SaveTokens that returns the granted pair without writing it
SaveTokens_NoWrite ==
    /\ pc = "save_tokens"
    /\ pc' = "list"
    /\ UNCHANGED <<err, tokvars, mr, events, response, listvars, syncvars, wirevars>>

\* json.dump(tokens, f) of _load_tokens completes
SaveTokens ==
    /\ pc = "save_tokens"
    /\ token_file' = Stored(tokens)
    /\ pc' = "list"
    /\ UNCHANGED <<err, tokens, mr, events, response, listvars, syncvars, wirevars>>

\* json.dump(tokens, f) of _load_tokens fails, or the process dies in it
SaveTokensFails ==
    /\ pc = "save_tokens"
    /\ Raise("OSError")
    /\ UNCHANGED <<tokvars, mr, events, response, listvars, syncvars, wirevars>>

----------------------------------------------------------------------------
(* _make_request and _refresh_token *)

InCall == pc \in {"list", "upload", "create"}

\* what sending a request of the current call leaves on the wire
Sending(r) ==
    /\ sent' = IF pc = "upload" THEN [sent EXCEPT ![path] = @ + 1] ELSE sent
    /\ created' = IF pc = "create"
                  THEN created \cup {[path |-> path, fileName |-> path.name,
                                      uploadToken |-> upload_token]}
                  ELSE created
    /\ served' = IF pc = "list" /\ r.status = 200 THEN Append(served, r.items)
                 ELSE served
    /\ issued' = IF pc = "upload" /\ r.status = 200
                 THEN issued \cup {[token |-> r.text, path |-> path]}
                 ELSE issued
    /\ n401' = IF r.status = 401 THEN n401 + 1 ELSE n401

\* the first requests.request of _make_request, and the test of its status
FirstAttempt ==
    /\ InCall /\ mr = "idle"
    /\ \E r \in Answers(pc) :
          /\ Sending(r)
          /\ events' = <<RequestEvent(r)>>
          /\ IF r.status = 0
             THEN Raise("ConnectionError") /\ UNCHANGED <<mr, response>>
             ELSE IF Unauthorized(r.status)
             THEN mr' = "refresh" /\ UNCHANGED <<pc, err, response>>
             ELSE mr' = "returned" /\ response' = r /\ UNCHANGED <<pc, err>>
    /\ UNCHANGED <<tokvars, listvars, syncvars>>

\* RefreshToken that replaces self.tokens by the token endpoint's document,
\* which has no refresh_token
RefreshToken_DropsRefresh ==
    /\ InCall /\ mr = "refresh"
    /\ \E a \in TokenAnswers :
          /\ events' = Append(events, [e |-> "refresh", token |-> a.access_token,
                                       status |-> a.status, cursor |-> 0])
          /\ IF a.status = 0
             THEN Raise("ConnectionError") /\ UNCHANGED <<mr, tokvars>>
             ELSE IF a.access_token = ""
             THEN Raise("KeyError") /\ UNCHANGED <<mr, tokvars>>
             ELSE /\ tokens' = [token |-> a.access_token, refresh_token |-> ""]
                  /\ token_file' = Partial
                  /\ mr' = "dump"
                  /\ UNCHANGED <<pc, err>>
    /\ UNCHANGED <<response, listvars, syncvars, wirevars>>

\* RefreshToken with the assignment to self.tokens['token'] left out
RefreshToken_KeepsOld ==
    /\ InCall /\ mr = "refresh"
    /\ \E a \in TokenAnswers :
          /\ events' = Append(events, [e |-> "refresh", token |-> a.access_token,
                                       status |-> a.status, cursor |-> 0])
          /\ IF a.status = 0
             THEN Raise("ConnectionError") /\ UNCHANGED <<mr, tokvars>>
             ELSE IF a.access_token = ""
             THEN Raise("KeyError") /\ UNCHANGED <<mr, tokvars>>
             ELSE /\ tokens' = tokens
                  /\ token_file' = Partial
                  /\ mr' = "dump"
                  /\ UNCHANGED <<pc, err>>
    /\ UNCHANGED <<response, listvars, syncvars, wirevars>>

\* RefreshToken with the write of TOKENS_FILE left out
RefreshToken_NoSave ==
    /\ InCall /\ mr = "refresh"
    /\ \E a \in TokenAnswers :
          /\ events' = Append(events, [e |-> "refresh", token |-> a.access_token,
                                       status |-> a.status, cursor |-> 0])
          /\ IF a.status = 0
             THEN Raise("ConnectionError") /\ UNCHANGED <<mr, tokvars>>
             ELSE IF a.access_token = ""
             THEN Raise("KeyError") /\ UNCHANGED <<mr, tokvars>>
             ELSE /\ tokens' = [tokens EXCEPT !.token = a.access_token]
                  /\ mr' = "retry"
                  /\ UNCHANGED <<pc, err, token_file>>
    /\ UNCHANGED <<response, listvars, syncvars, wirevars>>

\* RefreshToken reading the field with .get('access_token'): no KeyError
RefreshToken_Lenient ==
    /\ InCall /\ mr = "refresh"
    /\ \E a \in TokenAnswers :
          /\ events' = Append(events, [e |-> "refresh", token |-> a.access_token,
                                       status |-> a.status, cursor |-> 0])
          /\ IF a.status = 0
             THEN Raise("ConnectionError") /\ UNCHANGED <<mr, tokvars>>
             ELSE /\ tokens' = [tokens EXCEPT !.token = a.access_token]
                  /\ token_file' = Partial
                  /\ mr' = "dump"
                  /\ UNCHANGED <<pc, err>>
    /\ UNCHANGED <<response, listvars, syncvars, wirevars>>

\* _refresh_token up to the open of TOKENS_FILE for writing
RefreshToken ==
    /\ InCall /\ mr = "refresh"
    /\ \E a \in TokenAnswers :
          /\ events' = Append(events, [e |-> "refresh", token |-> a.access_token,
                                       status |-> a.status, cursor |-> 0])
          /\ IF a.status = 0
             THEN Raise("ConnectionError") /\ UNCHANGED <<mr, tokvars>>
             ELSE IF a.access_token = ""
             THEN Raise("KeyError") /\ UNCHANGED <<mr, tokvars>>
             ELSE /\ tokens' = [tokens EXCEPT !.token = a.access_token]
                  /\ token_file' = Partial
                  /\ mr' = "dump"
                  /\ UNCHANGED <<pc, err>>
    /\ UNCHANGED <<response, listvars, syncvars, wirevars>>

\* json.dump(self.tokens, f) of _refresh_token completes
DumpTokens ==
    /\ InCall /\ mr = "dump"
    /\ token_file' = Stored(tokens)
    /\ events' = Append(events, [e |-> "save", token |-> tokens.token, status |-> 0,
                                 cursor |-> 0])
    /\ mr' = "retry"
    /\ UNCHANGED <<pc, err, tokens, response, listvars, syncvars, wirevars>>

\* json.dump(self.tokens, f) of _refresh_token fails, or the process dies in it
DumpFails ==
    /\ InCall /\ mr = "dump"
    /\ Raise("OSError")
    /\ UNCHANGED <<tokvars, mr, events, response, listvars, syncvars, wirevars>>

\* Retry without response.raise_for_status()
Retry_NoRaise ==
    /\ InCall /\ mr = "retry"
    /\ \E r \in Answers(pc) :
          /\ Sending(r)
          /\ events' = Append(events, RequestEvent(r))
          /\ IF r.status = 0
             THEN Raise("ConnectionError") /\ UNCHANGED <<mr, response>>
             ELSE mr' = "returned" /\ response' = r /\ UNCHANGED <<pc, err>>
    /\ UNCHANGED <<tokvars, listvars, syncvars>>

\* Retry that refreshes again on another 401 (a recursive _make_request)
Retry_Again ==
    /\ InCall /\ mr = "retry"
    /\ \E r \in Answers(pc) :
          /\ Sending(r)
          /\ events' = Append(events, RequestEvent(r))
          /\ IF r.status = 0
             THEN Raise("ConnectionError") /\ UNCHANGED <<mr, response>>
             ELSE IF Unauthorized(r.status)
             THEN mr' = "refresh" /\ UNCHANGED <<pc, err, response>>
             ELSE IF RaisesForStatus(r.status)
             THEN Raise("HTTPError") /\ UNCHANGED <<mr, response>>
             ELSE mr' = "returned" /\ response' = r /\ UNCHANGED <<pc, err>>
    /\ UNCHANGED <<tokvars, listvars, syncvars>>

\* the second requests.request of _make_request and its raise_for_status
Retry ==
    /\ InCall /\ mr = "retry"
    /\ \E r \in Answers(pc) :
          /\ Sending(r)
          /\ events' = Append(events, RequestEvent(r))
          /\ IF r.status = 0
             THEN Raise("ConnectionError") /\ UNCHANGED <<mr, response>>
             ELSE IF RaisesForStatus(r.status)
             THEN Raise("HTTPError") /\ UNCHANGED <<mr, response>>
             ELSE mr' = "returned" /\ response' = r /\ UNCHANGED <<pc, err>>
    /\ UNCHANGED <<tokvars, listvars, syncvars>>

----------------------------------------------------------------------------
(* __init__: _load_media_items *)

\* ListReturn that does not keep the returned cursor
ListReturn_Restart ==
    /\ pc = "list" /\ mr = "returned"
    /\ IF ~response.hasItems
       THEN Raise("KeyError") /\ UNCHANGED <<mr, listvars>>
       ELSE /\ media_items' = media_items \o response.items
            /\ page_token' = 0
            /\ pc' = IF response.next = 0 THEN "main" ELSE "list"
            /\ mr' = "idle"
            /\ UNCHANGED err
    /\ UNCHANGED <<tokvars, events, response, syncvars, wirevars>>

\* ListReturn reading the page with .get('mediaItems', []): no KeyError
ListReturn_Lenient ==
    /\ pc = "list" /\ mr = "returned"
    /\ media_items' = media_items \o response.items
    /\ page_token' = response.next
    /\ pc' = IF response.next = 0 THEN "main" ELSE "list"
    /\ mr' = "idle"
    /\ UNCHANGED <<err, tokvars, events, response, syncvars, wirevars>>

\* the body of the while loop after _make_request has returned
ListReturn ==
    /\ pc = "list" /\ mr = "returned"
    /\ IF ~response.hasItems
       THEN Raise("KeyError") /\ UNCHANGED <<mr, listvars>>
       ELSE /\ media_items' = media_items \o response.items
            /\ page_token' = response.next
            /\ pc' = IF response.next = 0 THEN "main" ELSE "list"
            /\ mr' = "idle"
            /\ UNCHANGED err
    /\ UNCHANGED <<tokvars, events, response, syncvars, wirevars>>

----------------------------------------------------------------------------
(* main and upload_missing *)

\* main() after GooglePhotos(): parse the argument, test the path, call
\* upload_missing, which computes file_names and starts the glob
Main ==
    /\ pc = "main"
    /\ \/ /\ input_path' = "missing"
          /\ Raise("SystemExit")
          /\ UNCHANGED local
       \/ \E dir \in Directories :
             /\ input_path' = "dir"
             /\ local' = dir
             /\ pc' = "glob"
             /\ UNCHANGED err
       \/ /\ input_path' = "notdir"
          /\ local' = {}
          /\ pc' = "glob"
          /\ UNCHANGED err
    /\ UNCHANGED <<tokvars, mr, events, response, listvars, yielded, path,
                   upload_token, added, wirevars>>

\* Glob over a listing that yields a file again (the produced files are not
\* remembered)
Glob_Repeats ==
    /\ pc = "glob"
    /\ IF Candidates(local) \subseteq yielded
       THEN pc' = "done" /\ UNCHANGED <<yielded, path>>
       ELSE \E f \in Candidates(local) \ yielded :
               /\ yielded' = yielded
               /\ path' = f
               /\ pc' = IF f.name \notin FileNames THEN "upload" ELSE "glob"
    /\ UNCHANGED <<err, tokvars, mr, events, response, listvars, local,
                   upload_token, added, input_path, wirevars>>

\* Glob without the test `path.name not in file_names`
Glob_NoTest ==
    /\ pc = "glob"
    /\ IF Candidates(local) \subseteq yielded
       THEN pc' = "done" /\ UNCHANGED <<yielded, path>>
       ELSE \E f \in Candidates(local) \ yielded :
               /\ yielded' = yielded \cup {f}
               /\ path' = f
               /\ pc' = "upload"
    /\ UNCHANGED <<err, tokvars, mr, events, response, listvars, local,
                   upload_token, added, input_path, wirevars>>

\* one step of `for path in path.glob('**/*.JPG')` and the membership test
Glob ==
    /\ pc = "glob"
    /\ IF Candidates(local) \subseteq yielded
       THEN pc' = "done" /\ UNCHANGED <<yielded, path>>
       ELSE \E f \in Candidates(local) \ yielded :
               /\ yielded' = yielded \cup {f}
               /\ path' = f
               /\ pc' = IF f.name \notin FileNames THEN "upload" ELSE "glob"
    /\ UNCHANGED <<err, tokvars, mr, events, response, listvars, local,
                   upload_token, added, input_path, wirevars>>

\* UploadReturn without the assignment upload_token = response.text
UploadReturn_KeepsToken ==
    /\ pc = "upload" /\ mr = "returned"
    /\ IF RaisesForStatus(response.status)
       THEN Raise("HTTPError") /\ UNCHANGED <<mr, upload_token>>
       ELSE /\ upload_token' = upload_token
            /\ pc' = "create"
            /\ mr' = "idle"
            /\ UNCHANGED err
    /\ UNCHANGED <<tokvars, events, response, listvars, local, yielded, path,
                   added, input_path, wirevars>>

\* UploadReturn without response.raise_for_status()
UploadReturn_NoCheck ==
    /\ pc = "upload" /\ mr = "returned"
    /\ upload_token' = response.text
    /\ pc' = "create"
    /\ mr' = "idle"
    /\ UNCHANGED <<err, tokvars, events, response, listvars, local, yielded, path,
                   added, input_path, wirevars>>

\* after the upload call has returned: raise_for_status, upload_token
UploadReturn ==
    /\ pc = "upload" /\ mr = "returned"
    /\ IF RaisesForStatus(response.status)
       THEN Raise("HTTPError") /\ UNCHANGED <<mr, upload_token>>
       ELSE /\ upload_token' = response.text
            /\ pc' = "create"
            /\ mr' = "idle"
            /\ UNCHANGED err
    /\ UNCHANGED <<tokvars, events, response, listvars, local, yielded, path,
                   added, input_path, wirevars>>

\* after the batchCreate call has returned: the file is logged as added
CreateReturn ==
    /\ pc = "create" /\ mr = "returned"
    /\ added' = added \cup {path}
    /\ pc' = "glob"
    /\ mr' = "idle"
    /\ UNCHANGED <<err, tokvars, events, response, listvars, local, yielded,
                   path, upload_token, input_path, wirevars>>

----------------------------------------------------------------------------
Next ==
    \/ LoadTokens
    \/ SaveTokens
    \/ SaveTokensFails
    \/ FirstAttempt
    \/ RefreshToken
    \/ DumpTokens
    \/ DumpFails
    \/ Retry
    \/ ListReturn
    \/ Main
    \/ Glob
    \/ UploadReturn
    \/ CreateReturn

Spec == Init /\ [][Next]_vars

\* The program is one thread that runs until it ends, and every request is
\* answered or fails: a step that can be taken is taken.
FairSpec == Spec /\ WF_vars(Next)

TypeOK ==
    /\ pc \in Positions
    /\ mr \in {"idle", "refresh", "dump", "retry", "returned"}
    /\ tokens \in TokenPairs \cup {NoTokens}
    /\ token_file \in {Stored(p) : p \in TokenPairs} \cup {Absent, Partial}
    /\ n401 \in 0..MaxUnauthorized
    /\ Len(served) <= MaxPages
    /\ yielded \subseteq local

----------------------------------------------------------------------------
(* What a _make_request call did, read from events. *)

Requests == {i \in 1..Len(events) : events[i].e = "request"}
Refreshes == {i \in 1..Len(events) : events[i].e = "refresh"}
Saves == {i \in 1..Len(events) : events[i].e = "save"}

\* the first attempt of the call in events was answered 401
FirstWas401 == events # <<>> /\ events[1].status = 401

\* no _make_request call is between its first attempt and its end
CallOver == ~(InCall /\ mr \in {"refresh", "dump", "retry"})

\* the exception came out of __init__ (main has not parsed its argument)
RaisedInInit == pc = "raised" /\ input_path = "unset"

\* the candidate files of the directory that the inventory does not name
Missing == {f \in Candidates(local) : f.name \notin FileNames}

NothingUploaded == (\A f \in AllFiles : sent[f] = 0) /\ created = {} /\ added = {}

----------------------------------------------------------------------------
(* C1, as stated: a call whose first attempt returns 401 performs exactly   *)
(* one refresh and exactly one retried request.                             *)
C1_Original ==
    (FirstWas401 /\ CallOver) =>
        Cardinality(Refreshes) = 1 /\ Cardinality(Requests) = 2

(* C1, amended: a call whose first attempt returns 401 attempts exactly one *)
(* refresh; it sends exactly one retried request when the refresh has       *)
(* obtained and saved a new token and none when the refresh failed; there   *)
(* is never a second refresh or a third request, and a 401 on the retried   *)
(* request ends the call with HTTPError.                                    *)
C1_SingleRefreshRetry ==
    /\ Cardinality(Refreshes) <= 1
    /\ Cardinality(Requests) <= 2
    /\ (Refreshes # {} => FirstWas401)
    /\ (FirstWas401 /\ CallOver) =>
          /\ Cardinality(Refreshes) = 1
          /\ Cardinality(Requests) = (IF Saves # {} THEN 2 ELSE 1)
    /\ (Len(events) = 4 /\ events[4].status = 401) =>
          pc = "raised" /\ err = "HTTPError"

C1_Witness ==
    /\ pc = "raised" /\ err = "HTTPError"
    /\ Len(events) = 4
    /\ events[1].status = 401 /\ events[4].status = 401

(* C2: when the first attempt returns 401, the refresh succeeds and the     *)
(* retried request returns 200, the caller gets that 200 response, the      *)
(* retried request carries the access token the token endpoint has just     *)
(* issued, and the pair is saved exactly once, with that token.             *)
C2_RefreshedRetry ==
    (Len(events) = 4 /\ events[1].status = 401 /\ events[4].status = 200) =>
        /\ events[2].e = "refresh" /\ events[3].e = "save" /\ events[4].e = "request"
        /\ events[4].token = events[2].token
        /\ Cardinality(Saves) = 1
        /\ events[3].token = events[2].token
        /\ (InCall /\ mr # "idle") =>
              /\ mr = "returned"
              /\ response.status = 200
              /\ token_file = Stored(tokens)
              /\ tokens.token = events[2].token
              /\ (pc = "list" => response.items = served[Len(served)])
              /\ (pc = "upload" =>
                    [token |-> response.text, path |-> path] \in issued)

C2_Witness ==
    /\ InCall /\ mr = "returned"
    /\ Len(events) = 4
    /\ events[1].status = 401 /\ events[4].status = 200
    /\ events[1].token # events[4].token
    /\ response.status = 200

(* C3: whenever a refresh was triggered by a 401, the new pair is in the    *)
(* token file before the retried request is sent.                           *)
C3_SaveBeforeRetry ==
    /\ \A i \in Requests :
          i > 1 => \E j \in Saves : j < i /\ events[j].token = events[i].token
    /\ (InCall /\ mr = "retry") => token_file = Stored(tokens)

C3_Witness ==
    /\ Len(events) = 4
    /\ events[3].e = "save" /\ events[4].e = "request"
    /\ pc = "create"

(* C4: for any sequence of listing pages (pages without items included)     *)
(* ended by a page without a cursor, the load succeeds and media_items      *)
(* holds exactly the items of the pages.                                    *)
C4_Original ==
    /\ ~(RaisedInInit /\ mr = "returned" /\ response.status = 200)
    /\ (pc \in {"main", "glob", "upload", "create", "done"}) =>
          /\ media_items = Flatten(served)
          /\ Len(media_items) = SumLen(served)

\* what holds of the load: a completed load has accumulated every page served
LoadedAllServed ==
    (pc \in {"main", "glob", "upload", "create", "done"}) =>
        /\ media_items = Flatten(served)
        /\ Len(media_items) = SumLen(served)
        /\ page_token = 0

(* C5: raw-upload and registration requests are sent only for candidate     *)
(* files whose name is not in the inventory; a run that completes has sent  *)
(* both for every such file.                                                *)
C5_OnlyMissing ==
    /\ \A f \in AllFiles : sent[f] > 0 => f \in Missing
    /\ \A c \in created : c.path \in Missing
    /\ pc = "done" =>
          \A f \in Missing : sent[f] > 0 /\ (\E c \in created : c.path = f)

C5_Witness ==
    /\ pc = "done"
    /\ FileNames = {FileName("A", "JPG"), FileName("B", "JPG")}
    /\ local = {File("d", "A", "JPG"), File("e", "B", "JPG"),
                File("d", "C", "JPG"), File("d", "D", "jpg")}
    /\ sent[File("d", "C", "JPG")] = 1
    /\ \E c \in created : c.path = File("d", "C", "JPG")
    /\ \A f \in AllFiles : f # File("d", "C", "JPG") => sent[f] = 0

(* C6: a registration request for a file is sent only after the raw upload  *)
(* of that file has been answered with success; after a server error on     *)
(* the raw upload there is no registration request for the file.            *)
C6_RegisterAfterUpload ==
    /\ \A c \in created :
          [token |-> c.uploadToken, path |-> c.path] \in issued
    /\ pc = "create" => [token |-> upload_token, path |-> path] \in issued

C6_Witness ==
    /\ pc = "raised" /\ err = "HTTPError"
    /\ mr = "returned" /\ response.status = 500
    /\ sent[path] = 1
    /\ \A c \in created : c.path # path
    /\ created # {}

(* C7: a failure of the raw upload or of the registration of one file does  *)
(* not abort the run: the later candidate files absent from the inventory   *)
(* are still attempted.                                                     *)
C7_Original ==
    (pc = "raised" /\ input_path = "dir" /\ err = "HTTPError") =>
        \A f \in Missing : sent[f] > 0

(* C8: a page request of the load that fails (no response, or a response    *)
(* that is not 2xx) aborts the load: the constructor raises, the inventory  *)
(* is not used and nothing is uploaded.                                     *)
C8_LoadAborts ==
    /\ [][(pc = "list" /\ mr = "returned" /\ response.status # 200)
              => pc' = "raised"]_vars
    /\ [][(pc = "list" /\ pc' = "main")
              => (mr = "returned" /\ response.status = 200)]_vars
    /\ [][(pc = "list" /\ mr \in {"idle", "retry"} /\ events' # events)
              => LET status == events'[Len(events')].status
                 IN /\ (status = 0 => pc' = "raised")
                    /\ (mr = "retry" /\ status # 200 => pc' = "raised")
                    /\ (mr = "idle" /\ status \notin {0, 200, 401} =>
                           mr' = "returned" /\ response'.status = status)]_vars
    /\ [](RaisedInInit => (NothingUploaded /\ local = {}))

C8_Witness ==
    /\ RaisedInInit /\ err = "KeyError"
    /\ mr = "returned" /\ response.status = 500
    /\ Len(served) = 1 /\ media_items # <<>>

(* C9: when the token endpoint answers with a status that is not 2xx or    *)
(* with a body without access_token, the call ends with an exception: no   *)
(* retried request is sent and the access token is not replaced.           *)
C9_RefreshFailure ==
    \A i \in Refreshes :
        (events[i].status # 200 \/ events[i].token = "") =>
            /\ pc = "raised"
            /\ err \in {"KeyError", "ConnectionError"}
            /\ Len(events) = i
            /\ tokens.token = events[1].token
            /\ token_file = Stored(tokens)

C9_Witness ==
    /\ pc = "raised" /\ err = "KeyError"
    /\ Len(events) = 2
    /\ events[2].e = "refresh" /\ events[2].status = 400

(* C10: a failure during a save leaves the previously saved pair in the    *)
(* token file, readable by the next load.                                   *)
C10_Original ==
    (pc = "raised" /\ err = "OSError" /\ mr = "dump") => Readable(token_file)


(* C11: a first attempt answered with a status that is neither 2xx nor 401  *)
(* is returned to the caller as it is, with no refresh and no second        *)
(* request; a retried request answered with a status that is not 2xx ends   *)
(* the call with HTTPError, with no further request.                        *)
C11_ErrorsSurface ==
    /\ (events # <<>> /\ events[1].status \notin {0, 200, 401}) =>
          /\ Len(events) = 1
          /\ (InCall /\ mr # "idle") =>
                mr = "returned" /\ response.status = events[1].status
    /\ (Len(events) = 4 /\ events[4].status \notin {0, 200}) =>
          pc = "raised" /\ err = "HTTPError"
    /\ Len(events) <= 4

C11_Witness ==
    /\ pc = "create" /\ mr = "returned"
    /\ Len(events) = 1
    /\ response.status = 500


(* C12: a token pair exists before any authenticated request: the OAuth     *)
(* flow runs only when the token file is missing or unreadable, the pair    *)
(* it grants is written to the token file, and every request is sent with   *)
(* the access token of a pair that was loaded or granted.                   *)
C12_PairBeforeRequest ==
    /\ [][(pc = "load_tokens" /\ pc' = "save_tokens") => ~Readable(token_file)]_vars
    /\ [][(pc = "load_tokens" /\ pc' = "list") =>
              (Readable(token_file) /\ tokens' = PairOf(token_file))]_vars
    /\ [][(pc = "save_tokens" /\ pc' = "list") =>
              (tokens \in GrantedPairs /\ tokens' = tokens
               /\ token_file' = Stored(tokens))]_vars
    /\ [](pc \in {"load_tokens", "save_tokens"} => events = <<>>)
    /\ [](events # <<>> =>
              /\ tokens \in TokenPairs
              /\ \A i \in Requests : events[i].token \in AccessTokens)

C12_Witness ==
    /\ pc = "list" /\ mr = "returned"
    /\ tokens \in GrantedPairs
    /\ token_file = Stored(tokens)
    /\ Len(events) = 1 /\ events[1].token = tokens.token


(* C13, as stated: the raw bytes of a candidate file are sent to the upload *)
(* endpoint at most once in a run, also when a 401 triggers the retry.      *)
C13_Original == \A f \in AllFiles : sent[f] <= 1

(* C13, amended: upload_missing makes at most one upload call for a file in *)
(* a run; that call sends the raw bytes once, and a second time only as     *)
(* the retried request after a 401 on the first.                            *)
C13_OneUploadCall ==
    /\ \A f \in AllFiles : sent[f] <= 2
    /\ \A f \in AllFiles : f \notin yielded => sent[f] = 0
    /\ pc = "upload" =>
          /\ sent[path] = (IF mr = "idle" THEN 0 ELSE Cardinality(Requests))
          /\ (sent[path] = 2 => FirstWas401)

C13_Witness ==
    /\ pc = "done"
    /\ \E f \in AllFiles : sent[f] = 2
    /\ \E f \in AllFiles : sent[f] = 1


\* the batchCreate requests that reference upload token t
RegistrationsOf(t) == {c \in created : c.uploadToken = t}

(* C14: every upload token handed out by a successful raw upload is         *)
(* referenced by the registration of the file it was issued for, with that  *)
(* file's base name, and by no other registration; the registration is      *)
(* sent as soon as the upload call has returned.                            *)
C14_TokenUsedOnce ==
    /\ \A t \in issued :
          /\ RegistrationsOf(t.token) \subseteq
                {[path |-> t.path, fileName |-> t.path.name, uploadToken |-> t.token]}
          /\ RegistrationsOf(t.token) = {} =>
                /\ path = t.path
                /\ \/ pc = "upload" /\ mr = "returned"
                   \/ pc = "create" /\ mr = "idle"
    /\ \A t1, t2 \in issued : t1.token = t2.token => t1 = t2
    /\ \A c \in created : c.fileName = c.path.name

C14_Witness ==
    /\ pc = "done"
    /\ Cardinality(issued) = 2
    /\ \A t \in issued : Cardinality(RegistrationsOf(t.token)) = 1


(* C15: when the registration of a file fails after its raw upload has      *)
(* succeeded, the file is not reported as added to the library, and the     *)
(* run goes on with the next file.                                          *)
C15_Original ==
    /\ (pc = "glob" /\ path \in added) => response.status = 200
    /\ ~(pc = "raised" /\ err = "HTTPError" /\ \E c \in created : c.path = path)

(* C16: when the path argument is missing or is not a directory, the        *)
(* program exits with an error and upload_missing is not run.               *)
C16_Original ==
    input_path \in {"missing", "notdir"} => (pc = "raised" /\ NothingUploaded)


\* the program is past _load_media_items (it returned or raised)
LoadOver == pc \notin {"load_tokens", "save_tokens", "list"}

(* C17: the first page is requested without a cursor; each further page is  *)
(* requested with the cursor the page before it returned; the loop ends at  *)
(* the first page without a cursor and no listing request follows it; with  *)
(* finitely many pages the load eventually ends.                            *)
C17_Pagination ==
    /\ [](pc = "list" /\ mr = "idle" => page_token = Len(served))
    /\ [](pc = "list" /\ mr # "idle" =>
              \A i \in Requests : events[i].cursor = page_token)
    /\ [][(pc = "list" /\ mr = "returned" /\ response.hasItems) =>
              IF response.next = 0
              THEN pc' = "main"
              ELSE pc' = "list" /\ mr' = "idle" /\ page_token' = response.next]_vars
    /\ [][LoadOver => (pc' # "list" /\ served' = served)]_vars
    /\ <>LoadOver

C17_Witness ==
    /\ pc = "main"
    /\ Len(served) = 2
    /\ page_token = 0
    /\ events[Len(events)].cursor = 1


(* C18: a refresh replaces the access token only: the refresh token in      *)
(* memory never changes once the pair is loaded or granted, and a readable  *)
(* token file holds the same refresh token.                                 *)
C18_RefreshTokenKept ==
    /\ [][tokens # NoTokens => tokens'.refresh_token = tokens.refresh_token]_vars
    /\ [](tokens # NoTokens => tokens.refresh_token \in RefreshTokens)
    /\ []((Readable(token_file) /\ tokens # NoTokens) =>
              token_file.refresh_token = tokens.refresh_token)

C18_Witness ==
    /\ n401 = 2
    /\ Len(events) >= 3 /\ events[3].e = "save"
    /\ events[1].token # events[3].token
    /\ tokens.refresh_token = "r0"
    /\ token_file = Stored(tokens)
    /\ pc = "upload"


(* C19: whenever an authenticated request is issued, the token file holds   *)
(* the pair that is in memory; the two copies change only in _load_tokens   *)
(* and in _refresh_token.                                                   *)
C19_FileMatchesMemory ==
    /\ []((InCall /\ mr \in {"idle", "retry"}) => token_file = Stored(tokens))
    /\ []((InCall /\ mr = "returned") => token_file = Stored(tokens))
    /\ [][(tokens' # tokens \/ token_file' # token_file) =>
              \/ pc \in {"load_tokens", "save_tokens"}
              \/ InCall /\ mr \in {"refresh", "dump"}]_vars

C19_Witness ==
    /\ pc = "list" /\ mr = "retry"
    /\ tokens.refresh_token = "r1"
    /\ tokens.token = "t0"
    /\ token_file = Stored(tokens)


\* the requests after the first one of the call in events
Retried == {i \in Requests : i > 1}

(* C20, as stated: _make_request never returns a 401 response; a 401 on the *)
(* first attempt always leads to a refresh and a retry; a retried request   *)
(* answered with a status that is not 2xx raises.                           *)
C20_Original ==
    /\ response.status # 401
    /\ (FirstWas401 /\ CallOver) => (Refreshes # {} /\ Retried # {})
    /\ \A i \in Retried : events[i].status \notin {0, 200} =>
          pc = "raised" /\ err = "HTTPError"

(* C20, amended: _make_request never returns a 401 response; a 401 on the   *)
(* first attempt always leads to a refresh, and to a retry when the refresh *)
(* has obtained and saved a new token (otherwise the refresh's exception    *)
(* ends the call); a retried request answered with a status that is not    *)
(* 2xx raises instead of returning.                                         *)
C20_Never401Returned ==
    /\ response.status # 401
    /\ (FirstWas401 /\ CallOver) =>
          /\ Refreshes # {}
          /\ IF Saves # {}
             THEN Retried # {}
             ELSE /\ Retried = {}
                  /\ pc = "raised"
                  /\ err \in {"KeyError", "ConnectionError", "OSError"}
    /\ \A i \in Retried : events[i].status \notin {0, 200} =>
          pc = "raised" /\ err = "HTTPError"

C20_Witness ==
    /\ pc = "raised" /\ err = "HTTPError"
    /\ path # NoFile /\ sent[path] = 2
    /\ Len(events) = 4 /\ events[4].status = 401

====
